---- MODULE Spec2Model ----
(***************************************************************************)
(* Omni dashboard migration assistant.                                     *)
(*                                                                         *)
(* Two components are modelled:                                            *)
(*   - OmniAPI (src/unnamed/part_000): the environment client, a wrapper   *)
(*     around fetch that adds the bearer token and turns a non-success     *)
(*     response into an Error;                                             *)
(*   - DashboardMigration (src/src/app/page.tsx): the React component      *)
(*     whose handleMigration exports from the source environment and       *)
(*     imports into the target environment, and whose status / error /     *)
(*     configError fields are what the caller sees.                        *)
(*                                                                         *)
(* JavaScript strings are TLA+ strings ("" is the empty, falsy string);    *)
(* JSON values are tagged records.  A response body is modelled by the     *)
(* JSON value its text denotes, or NotJson when JSON.parse rejects it.     *)
(* Each await is one step: the handler runs up to the await in one action  *)
(* and resumes, when the response arrives, in the next.                    *)
(***************************************************************************)
EXTENDS Naturals, Sequences, FiniteSets, TLC

VARIABLES
    config,             \* OMNI_CONFIG, fixed when the module is loaded
    mounted,            \* the useEffect of DashboardMigration has run
    configError,        \* useState configError
    sourceDashboardId,  \* useState sourceDashboardId (the input field)
    targetModelId,      \* useState targetModelId (the input field)
    status,             \* useState status
    error,              \* useState error
    att,                \* att[a]: the a-th run of handleMigration: where it
                        \* stands, the ids its closure captured, what it caught
    calls,              \* calls[a]: the HTTP calls the a-th run has issued
    clPc,               \* a caller using an OmniAPI instance directly
    clCalls,            \* the HTTP calls that instance has issued
    clOutcome           \* what its last method call returned or threw

vars == <<config, mounted, configError, sourceDashboardId, targetModelId,
          status, error, att, calls, clPc, clCalls, clOutcome>>

uiVars == <<config, mounted, configError, sourceDashboardId, targetModelId,
            status, error, att, calls>>

clVars == <<clPc, clCalls, clOutcome>>

-----------------------------------------------------------------------------
(* Bounds *)

\* how many times Start Migration is clicked
MaxAttempts == 2

\* how many method calls the direct caller of OmniAPI makes
MaxClientCalls == 2

Attempts == 1..MaxAttempts

-----------------------------------------------------------------------------
(* JSON values and the JavaScript operations the code applies to them *)

Undefined == [t |-> "undefined"]

Null == [t |-> "null"]

JStr(s) == [t |-> "string", s |-> s]

JObj(f) == [t |-> "object", f |-> f]

\* a body text that is not JSON
NotJson == [t |-> "notjson"]

\* v.k does not throw
CanRead(v) == v.t \notin {"undefined", "null"}

\* v.k, for a v that CanRead
Prop(v, k) == IF v.t = "object" /\ k \in DOMAIN v.f THEN v.f[k] ELSE Undefined

\* the TypeError of v.k when v is null or undefined
TypeErrorMsg(v, k) ==
    "Cannot read properties of " \o v.t \o " (reading '" \o k \o "')"

\* the condition of a || b
Truthy(v) == v.t = "object" \/ (v.t = "string" /\ v.s # "")

\* `${v}`
ToStr(v) ==
    CASE v.t = "string" -> v.s
      [] v.t = "undefined" -> "undefined"
      [] v.t = "null" -> "null"
      [] OTHER -> "[object Object]"

\* JSON.stringify drops the keys whose value is undefined
JSONStringify(v) ==
    IF v.t = "object"
    THEN JObj([k \in {j \in DOMAIN v.f : v.f[j] # Undefined} |-> v.f[k]])
    ELSE v

Return(v) == [kind |-> "return", value |-> v]

Throw(m) == [kind |-> "throw", message |-> m]

None == [kind |-> "none"]

-----------------------------------------------------------------------------
(* HTTP *)

\* fetch() rejected: DNS, TLS, connection reset
NetErr == [type |-> "error"]

Http(ok, statusText, body) ==
    [type |-> "http", ok |-> ok, statusText |-> statusText, body |-> body]

Pending == [type |-> "pending"]

\* the message of the TypeError a rejected fetch() carries
NetErrMsg == "Failed to fetch"

\* the message of the SyntaxError response.json() throws
JsonErrMsg == "Unexpected token < in JSON at position 0"

Call(method, url, auth, body) ==
    [method |-> method, url |-> url, auth |-> auth, body |-> body,
     resp |-> Pending]

-----------------------------------------------------------------------------
(* OmniAPI, the environment client *)

\* new OmniAPI(baseUrl, token): both stored, nothing validated
OmniAPI(baseUrl, token) == [baseUrl |-> baseUrl, token |-> token]

\* options = {}: fetch() defaults to GET and sends no body
NoOptions == [method |-> "GET", body |-> Undefined]

\* the request OmniAPI.fetch hands to fetch()
OmniFetchCall(client, endpoint, options) ==
    Call(options.method, client.baseUrl \o endpoint,
         "Bearer " \o client.token, options.body)

\* a faulty OmniAPI.fetch that reports the status text and never the detail
OmniFetchResultStatusOnly(resp) ==
    IF resp.type = "error" THEN Throw(NetErrMsg)
    ELSE IF resp.body = NotJson THEN Throw(JsonErrMsg)
    ELSE IF ~resp.ok
         THEN IF ~CanRead(resp.body)
              THEN Throw(TypeErrorMsg(resp.body, "detail"))
              ELSE Throw("Omni API Error: " \o resp.statusText)
         ELSE Return(resp.body)

\* a faulty OmniAPI.fetch without the !response.ok check
OmniFetchResultIgnoreOk(resp) ==
    IF resp.type = "error" THEN Throw(NetErrMsg)
    ELSE IF resp.body = NotJson THEN Throw(JsonErrMsg)
    ELSE Return(resp.body)

\* what OmniAPI.fetch makes of the response: on !response.ok the body is
\* parsed and an Error carrying detail || statusText is thrown, else the
\* parsed body is returned; a rejected fetch() and a failing response.json()
\* propagate
OmniFetchResult(resp) ==
    IF resp.type = "error" THEN Throw(NetErrMsg)
    ELSE IF ~resp.ok
         THEN IF resp.body = NotJson THEN Throw(JsonErrMsg)
              ELSE IF ~CanRead(resp.body)
                   THEN Throw(TypeErrorMsg(resp.body, "detail"))
                   ELSE LET detail == Prop(resp.body, "detail")
                        IN  Throw("Omni API Error: " \o
                                  (IF Truthy(detail) THEN ToStr(detail)
                                                     ELSE resp.statusText))
         ELSE IF resp.body = NotJson THEN Throw(JsonErrMsg)
              ELSE Return(resp.body)

ExportDashboardCall(client, dashboardId) ==
    OmniFetchCall(client,
                  "/api/unstable/documents/" \o dashboardId \o "/export",
                  NoOptions)

\* no DashboardImportRequest.parse: data goes out as it came in
ImportDashboardCall(client, data) ==
    OmniFetchCall(client, "/api/unstable/documents/import",
                  [method |-> "POST", body |-> JSONStringify(data)])

-----------------------------------------------------------------------------
(* OMNI_CONFIG and validateOmniConfig *)

EnvNames == <<"NEXT_PUBLIC_SOURCE_OMNI_URL", "SOURCE_OMNI_API_TOKEN",
              "NEXT_PUBLIC_TARGET_OMNI_URL", "TARGET_OMNI_API_TOKEN">>

\* process.env.X || '' for the four variables, each unset or set
Configs ==
    { [source |-> [baseUrl |-> su, token |-> st],
       target |-> [baseUrl |-> tu, token |-> tt]] :
        su \in {"", "https://source.omniapp.co"}, st \in {"", "source-token"},
        tu \in {"", "https://target.omniapp.co"}, tt \in {"", "target-token"} }

Push(arr, cond, name) == IF cond THEN Append(arr, name) ELSE arr

RECURSIVE Join(_, _)
Join(arr, sep) ==
    IF Len(arr) = 0 THEN ""
    ELSE IF Len(arr) = 1 THEN arr[1]
    ELSE arr[1] \o sep \o Join(Tail(arr), sep)

\* a faulty validateOmniConfig that forgets TARGET_OMNI_API_TOKEN
MissingVarsNoTargetToken(cfg) ==
    Push(Push(Push(<<>>,
        cfg.source.baseUrl = "", EnvNames[1]),
        cfg.source.token = "", EnvNames[2]),
        cfg.target.baseUrl = "", EnvNames[3])

\* missingVars after the four pushes
MissingVars(cfg) ==
    Push(Push(Push(Push(<<>>,
        cfg.source.baseUrl = "", EnvNames[1]),
        cfg.source.token = "", EnvNames[2]),
        cfg.target.baseUrl = "", EnvNames[3]),
        cfg.target.token = "", EnvNames[4])

ConfigErrorPrefix == "Missing required environment variables: "

ValidateOmniConfig(cfg) ==
    IF Len(MissingVars(cfg)) > 0
    THEN Throw(ConfigErrorPrefix \o Join(MissingVars(cfg), ", "))
    ELSE Return(TRUE)

-----------------------------------------------------------------------------
(* What the user can type and what the two environments can answer *)

ValidModelId == "11111111-1111-1111-1111-111111111111"

SourceIds == {"", "dash_123"}

TargetIds == {"", ValidModelId, "not-a-uuid"}

\* an Export Bundle as the source documents it
Bundle1 ==
    JObj([dashboard |-> JObj([name |-> JStr("Sales")]),
          document |-> JStr("doc-1"),
          workbookModel |-> JStr("wm-1"),
          exportVersion |-> JStr("0.1")])

\* a bundle of another export format, without a document
Bundle2 ==
    JObj([dashboard |-> JStr("dash-2"),
          workbookModel |-> JStr("wm-2"),
          exportVersion |-> JStr("0.2")])

ImportResult(id) ==
    JObj([dashboard |-> JObj([dashboardId |-> JStr(id)]),
          miniUuidMap |-> JObj(<<>>),
          workbook |-> JObj([id |-> JStr("wb-1")])])

GetResponses ==
    { Http(TRUE, "OK", Bundle1),
      Http(TRUE, "OK", Bundle2),
      Http(TRUE, "OK", Null),
      Http(TRUE, "OK", NotJson),
      Http(FALSE, "Not Found", JObj([detail |-> JStr("Document not found")])),
      NetErr }

PostResponses ==
    { Http(TRUE, "OK", ImportResult("new_1")),
      Http(TRUE, "OK", ImportResult("new_2")),
      Http(TRUE, "OK", JObj([dashboard |-> JObj(<<>>)])),
      Http(FALSE, "Bad Request", JObj([detail |-> JStr("Invalid base model")])),
      Http(FALSE, "Internal Server Error", NotJson) }

-----------------------------------------------------------------------------
(* DashboardMigration *)

\* if (configError) the error panel is rendered instead of the form; the
\* effect that sets configError runs before any user event is handled
FormRendered == mounted /\ configError = ""

\* disabled={!sourceDashboardId || !targetModelId}
ButtonEnabled == sourceDashboardId # "" /\ targetModelId # ""

IdleAttempt ==
    [pc |-> "idle", src |-> "", tgt |-> "", caught |-> None]

\* a faulty request with dashboard and document exchanged
BuildImportRequestSwapped(baseModelId, exportData) ==
    JObj([baseModelId |-> JStr(baseModelId),
          dashboard |-> Prop(exportData, "document"),
          document |-> Prop(exportData, "dashboard"),
          workbookModel |-> Prop(exportData, "workbookModel"),
          exportVersion |-> JStr("0.1")])

\* the argument of targetApi.importDashboard; exportVersion is the literal
\* '0.1', whatever the bundle says
BuildImportRequest(baseModelId, exportData) ==
    JObj([baseModelId |-> JStr(baseModelId),
          dashboard |-> Prop(exportData, "dashboard"),
          document |-> Prop(exportData, "document"),
          workbookModel |-> Prop(exportData, "workbookModel"),
          exportVersion |-> JStr("0.1")])

\* a faulty catch block that always takes the fallback text
CatchMessageUnknown(err) == "An unknown error occurred"

\* err instanceof Error ? err.message : 'An unknown error occurred'; every
\* value thrown in the try block is an Error
CatchMessage(err) == err.message

CompletedPrefix == "Migration completed successfully! New dashboard ID: "

\* a faulty completion text that shows the workbook id
CompletedStatusWorkbook(importResult) ==
    CompletedPrefix \o ToStr(Prop(Prop(importResult, "workbook"), "id"))

\* the template literal of the last setStatus
CompletedStatus(importResult) ==
    CompletedPrefix \o
        ToStr(Prop(Prop(importResult, "dashboard"), "dashboardId"))

\* the catch block of handleMigration
Catch(a, err, newCalls) ==
    /\ error' = CatchMessage(err)
    /\ status' = "Migration failed"
    /\ att' = [att EXCEPT ![a].pc = "failed", ![a].caught = err]
    /\ calls' = newCalls

\* calls[a] with the response of its last call filled in
Answered(a, resp) ==
    [calls EXCEPT ![a][Len(calls[a])].resp = resp]

Init ==
    /\ config \in Configs
    /\ mounted = FALSE
    /\ configError = ""
    /\ sourceDashboardId = ""
    /\ targetModelId = ""
    /\ status = ""
    /\ error = ""
    /\ att = [a \in Attempts |-> IdleAttempt]
    /\ calls = [a \in Attempts |-> <<>>]
    /\ clPc = "ready"
    /\ clCalls = <<>>
    /\ clOutcome = None

\* useEffect(() => { try { validateOmniConfig() } catch ... }, [])
Mount ==
    /\ ~mounted
    /\ mounted' = TRUE
    /\ configError' = (IF ValidateOmniConfig(config).kind = "throw"
                       THEN ValidateOmniConfig(config).message
                       ELSE configError)
    /\ UNCHANGED <<config, sourceDashboardId, targetModelId, status, error,
                   att, calls>>
    /\ UNCHANGED clVars

SetSourceDashboardId(v) ==
    /\ FormRendered
    /\ v # sourceDashboardId
    /\ sourceDashboardId' = v
    /\ UNCHANGED <<config, mounted, configError, targetModelId, status, error,
                   att, calls>>
    /\ UNCHANGED clVars

SetTargetModelId(v) ==
    /\ FormRendered
    /\ v # targetModelId
    /\ targetModelId' = v
    /\ UNCHANGED <<config, mounted, configError, sourceDashboardId, status,
                   error, att, calls>>
    /\ UNCHANGED clVars

\* the click: handleMigration up to its first await.  Attempts are numbered
\* in the order of the clicks; the button stays enabled while one runs.
HandleMigrationStart(a) ==
    /\ FormRendered
    /\ ButtonEnabled
    /\ att[a].pc = "idle"
    /\ \A b \in Attempts : b < a => att[b].pc # "idle"
    /\ LET sourceApi == OmniAPI(config.source.baseUrl, config.source.token)
       IN  /\ status' = "Exporting dashboard from source environment..."
           /\ error' = ""
           /\ att' = [att EXCEPT ![a] = [pc |-> "exporting",
                                          src |-> sourceDashboardId,
                                          tgt |-> targetModelId,
                                          caught |-> None]]
           /\ calls' = [calls EXCEPT ![a] =
                           <<ExportDashboardCall(sourceApi, sourceDashboardId)>>]
    /\ UNCHANGED <<config, mounted, configError, sourceDashboardId,
                   targetModelId>>
    /\ UNCHANGED clVars

\* the GET is answered: handleMigration up to its second await
HandleMigrationExported(a, resp) ==
    /\ att[a].pc = "exporting"
    /\ LET targetApi == OmniAPI(config.target.baseUrl, config.target.token)
           got == OmniFetchResult(resp)
       IN  IF got.kind = "throw"
           THEN Catch(a, got, Answered(a, resp))
           ELSE IF ~CanRead(got.value)
           THEN Catch(a, Throw(TypeErrorMsg(got.value, "dashboard")),
                      Answered(a, resp))
           ELSE /\ status' = "Importing dashboard to target environment..."
                /\ error' = error
                /\ att' = [att EXCEPT ![a].pc = "importing"]
                /\ calls' = [Answered(a, resp) EXCEPT ![a] = Append(@,
                        ImportDashboardCall(targetApi,
                            BuildImportRequest(att[a].tgt, got.value)))]
    /\ UNCHANGED <<config, mounted, configError, sourceDashboardId,
                   targetModelId>>
    /\ UNCHANGED clVars

\* the POST is answered: handleMigration to its end
HandleMigrationImported(a, resp) ==
    /\ att[a].pc = "importing"
    /\ LET got == OmniFetchResult(resp)
       IN  IF got.kind = "throw"
           THEN Catch(a, got, Answered(a, resp))
           ELSE IF ~CanRead(got.value)
           THEN Catch(a, Throw(TypeErrorMsg(got.value, "dashboard")),
                      Answered(a, resp))
           ELSE IF ~CanRead(Prop(got.value, "dashboard"))
           THEN Catch(a, Throw(TypeErrorMsg(Prop(got.value, "dashboard"),
                                            "dashboardId")),
                      Answered(a, resp))
           ELSE /\ status' = CompletedStatus(got.value)
                /\ error' = error
                /\ att' = [att EXCEPT ![a].pc = "completed"]
                /\ calls' = Answered(a, resp)
    /\ UNCHANGED <<config, mounted, configError, sourceDashboardId,
                   targetModelId>>
    /\ UNCHANGED clVars

Next ==
    \/ Mount
    \/ \E v \in SourceIds : SetSourceDashboardId(v)
    \/ \E v \in TargetIds : SetTargetModelId(v)
    \/ \E a \in Attempts : HandleMigrationStart(a)
    \/ \E a \in Attempts : \E resp \in GetResponses :
            HandleMigrationExported(a, resp)
    \/ \E a \in Attempts : \E resp \in PostResponses :
            HandleMigrationImported(a, resp)

Spec == Init /\ [][Next]_vars

-----------------------------------------------------------------------------
(* OmniAPI used directly: exportDashboard and importDashboard are public,  *)
(* and at run time importDashboard takes whatever object it is handed.     *)

\* Import Requests a caller can hand to importDashboard
ImportRequests ==
    { JObj([baseModelId |-> JStr(m),
            dashboard |-> Prop(Bundle1, "dashboard"),
            document |-> Prop(Bundle1, "document"),
            workbookModel |-> Prop(Bundle1, "workbookModel"),
            exportVersion |-> JStr(v)]) :
        m \in {ValidModelId, "not-a-uuid"}, v \in {"0.1", "0.2"} }

ErrorBodies ==
    { JObj([detail |-> JStr("Dashboard not found")]),
      JObj([detail |-> JStr("")]),
      JObj([detail |-> JObj([loc |-> JStr("body")])]),
      JObj(<<>>),
      JStr("upstream error"),
      Null,
      NotJson }

ClientResponses ==
    { Http(TRUE, "OK", b) : b \in {Bundle1, ImportResult("new_1"), Null, NotJson} }
    \cup { Http(FALSE, st, b) : st \in {"Bad Request", ""}, b \in ErrorBodies }
    \cup { NetErr }

\* the instance under test; the constructor validates nothing
TheClient == OmniAPI(config.target.baseUrl, config.target.token)

ClientExportDashboard(dashboardId) ==
    /\ clPc = "ready"
    /\ Len(clCalls) < MaxClientCalls
    /\ clCalls' = Append(clCalls, ExportDashboardCall(TheClient, dashboardId))
    /\ clPc' = "awaiting"
    /\ clOutcome' = None
    /\ UNCHANGED uiVars

ClientImportDashboard(data) ==
    /\ clPc = "ready"
    /\ Len(clCalls) < MaxClientCalls
    /\ clCalls' = Append(clCalls, ImportDashboardCall(TheClient, data))
    /\ clPc' = "awaiting"
    /\ clOutcome' = None
    /\ UNCHANGED uiVars

\* the pending call is answered and OmniAPI.fetch settles
ClientAnswered(resp) ==
    /\ clPc = "awaiting"
    /\ clCalls' = [clCalls EXCEPT ![Len(clCalls)].resp = resp]
    /\ clOutcome' = OmniFetchResult(resp)
    /\ clPc' = "ready"
    /\ UNCHANGED uiVars

NextClient ==
    \/ \E id \in SourceIds \ {""} : ClientExportDashboard(id)
    \/ \E data \in ImportRequests : ClientImportDashboard(data)
    \/ \E resp \in ClientResponses : ClientAnswered(resp)

\* the instance is built from a complete configuration
InitClient == Init /\ Len(MissingVars(config)) = 0

SpecClient == InitClient /\ [][NextClient]_vars

-----------------------------------------------------------------------------
(* Properties *)

Range(f) == {f[i] : i \in DOMAIN f}

Started == {a \in Attempts : att[a].pc # "idle"}

ExportUrl(id) ==
    config.source.baseUrl \o "/api/unstable/documents/" \o id \o "/export"

ImportUrl == config.target.baseUrl \o "/api/unstable/documents/import"

\* a response OmniAPI.fetch returns a value for
Succeeded(r) == r.type = "http" /\ r.ok /\ r.body # NotJson

\* C1: every run of handleMigration issues exactly one GET export call to
\* the source and at most one POST import call to the target; the POST only
\* after the GET of the same run was answered successfully; after a failed
\* GET (non-success status, unparseable body, transport error) there is no
\* POST.
C1_OneGetThenAtMostOnePost ==
    \A a \in Attempts :
        /\ att[a].pc = "idle" => calls[a] = <<>>
        /\ att[a].pc # "idle" =>
            /\ Len(calls[a]) \in {1, 2}
            /\ calls[a][1].method = "GET"
            /\ calls[a][1].url = ExportUrl(att[a].src)
        /\ Len(calls[a]) = 2 =>
            /\ calls[a][2].method = "POST"
            /\ calls[a][2].url = ImportUrl
            /\ Succeeded(calls[a][1].resp)
        /\ att[a].pc \in {"completed", "failed"} /\ ~Succeeded(calls[a][1].resp)
                => Len(calls[a]) = 1

C1_Witness ==
    \E a, b \in Attempts :
        /\ att[a].pc = "completed" /\ Len(calls[a]) = 2
        /\ att[b].pc = "failed" /\ Len(calls[b]) = 1
        /\ calls[b][1].resp = NetErr

\* C2: importDashboard sends no HTTP request for an Import Request whose
\* exportVersion is not the literal "0.1".
C2_NoMismatchedVersionSent ==
    \A i \in 1..Len(clCalls) :
        clCalls[i].method = "POST"
            => Prop(clCalls[i].body, "exportVersion") = JStr("0.1")

\* C3: the exportVersion of the Import Request a run sends is the
\* exportVersion of the Export Bundle that run received.
C3_ExportVersionPassedThrough ==
    \A a \in Attempts :
        Len(calls[a]) = 2
            => Prop(calls[a][2].body, "exportVersion")
                 = Prop(calls[a][1].resp.body, "exportVersion")

\* of the ids the user of this model can type, the one z.string().uuid()
\* accepts
UuidShaped(id) == id = ValidModelId

\* C4: a run leaves Idle, and issues a network call, only with a non-empty
\* source dashboard id and a non-empty, UUID-shaped target model id.
C4_StartOnlyWithValidIds ==
    \A a \in Attempts :
        (att[a].pc # "idle" \/ calls[a] # <<>>)
            => att[a].src # "" /\ att[a].tgt # "" /\ UuidShaped(att[a].tgt)

\* a success response that carries a dashboard with a string dashboardId
IsImportResult(r) ==
    /\ Succeeded(r)
    /\ CanRead(r.body)
    /\ Prop(Prop(r.body, "dashboard"), "dashboardId").t = "string"

C6_ThrownErrorsEndInFailed ==
    [][\A a \in Attempts :
        /\ (att[a].pc \in {"exporting", "importing"} /\ att'[a] # att[a]) =>
            LET r == calls'[a][Len(calls[a])].resp
            IN  OmniFetchResult(r).kind = "throw" =>
                    /\ att'[a].pc = "failed"
                    /\ error' = OmniFetchResult(r).message
                    /\ status' = "Migration failed"
                    /\ Len(calls'[a]) = Len(calls[a])
        /\ att[a].pc = "failed" =>
            att'[a] = att[a] /\ calls'[a] = calls[a]]_vars

C6_Witness ==
    \E a, b \in Attempts :
        /\ att[a].pc = "failed" /\ Len(calls[a]) = 2
        /\ calls[a][2].resp = Http(FALSE, "Internal Server Error", NotJson)
        /\ att[b].pc = "failed" /\ calls[b][1].resp = NetErr
        /\ error = NetErrMsg

\* the answered call of the direct caller, when it was a non-success
\* response
LastResp == clCalls[Len(clCalls)].resp

ErrorAnswered ==
    /\ clPc = "ready" /\ Len(clCalls) > 0
    /\ LastResp.type = "http" /\ ~LastResp.ok

HasDetail(body) == body.t = "object" /\ "detail" \in DOMAIN body.f

\* C7 as stated: for every non-success response whose body parses as JSON
\* the client throws "Omni API Error: " followed by the body's detail when
\* the body has one, and by the status text otherwise.
C7_DetailWheneverProvided ==
    (ErrorAnswered /\ LastResp.body # NotJson) =>
        clOutcome = Throw("Omni API Error: " \o
                          (IF HasDetail(LastResp.body)
                           THEN ToStr(Prop(LastResp.body, "detail"))
                           ELSE LastResp.statusText))

\* C7, amended: for every non-success response whose body parses as a JSON
\* value other than null, the client throws "Omni API Error: " followed by
\* the body's detail when that is a non-empty string, and by the status text
\* when the body has no detail or an empty one.
C7_DetailWhenNonEmpty ==
    (ErrorAnswered /\ LastResp.body # NotJson /\ LastResp.body # Null) =>
        LET detail == Prop(LastResp.body, "detail")
        IN  /\ (detail.t = "string" /\ detail.s # "") =>
                    clOutcome = Throw("Omni API Error: " \o detail.s)
            /\ (detail = Undefined \/ detail = JStr("")) =>
                    clOutcome = Throw("Omni API Error: " \o LastResp.statusText)

C7_Witness ==
    /\ ErrorAnswered
    /\ LastResp = Http(FALSE, "Bad Request", JObj([detail |-> JStr("")]))
    /\ clOutcome = Throw("Omni API Error: Bad Request")
    /\ Len(clCalls) = 2
    /\ clCalls[1].resp =
        Http(FALSE, "Bad Request", JObj([detail |-> JStr("Dashboard not found")]))

\* the settings that are missing, read off OMNI_CONFIG
MissingSettings ==
    {EnvNames[i] : i \in {j \in 1..4 :
        <<config.source.baseUrl, config.source.token,
          config.target.baseUrl, config.target.token>>[j] = ""}}

\* the lists of distinct variable names a message can enumerate
NameLists ==
    {l \in UNION {[1..n -> Range(EnvNames)] : n \in 0..4} :
        \A i, j \in DOMAIN l : i # j => l[i] # l[j]}

\* C8: with any of the four settings missing, no run leaves Idle and no
\* call is issued, and once the component has mounted configError is the
\* configuration message listing exactly the missing settings.
C8_MissingConfigBlocksMigration ==
    MissingSettings # {} =>
        /\ \A a \in Attempts : att[a].pc = "idle" /\ calls[a] = <<>>
        /\ mounted =>
            /\ ~FormRendered
            /\ \E l \in NameLists :
                /\ configError = ConfigErrorPrefix \o Join(l, ", ")
                /\ Range(l) = MissingSettings

C8_Witness ==
    /\ mounted
    /\ MissingSettings = {EnvNames[2], EnvNames[4]}
    /\ configError = ConfigErrorPrefix \o EnvNames[2] \o ", " \o EnvNames[4]

\* what a finished run reported when it ended
Outcome(a) ==
    IF att[a].pc = "completed"
    THEN <<CompletedStatus(calls[a][2].resp.body), "">>
    ELSE <<"Migration failed", att[a].caught.message>>

\* C9: whenever no run is in flight, the status and error on display are
\* the outcome of one run: Completed with its dashboard id and no error, or
\* Failed with its own error message.
C9_ReportIsOneAttemptsOutcome ==
    (Started # {} /\ \A a \in Started : att[a].pc \in {"completed", "failed"})
        => \E a \in Started : <<status, error>> = Outcome(a)

\* C10: the Import Request a run sends has dashboard, document and
\* workbookModel equal to the fields of the same name of the Export Bundle
\* that run received (absent where the bundle has none), and baseModelId
\* equal to the target model id the run was started with.
C10_BundleFieldsPassedThrough ==
    \A a \in Attempts :
        Len(calls[a]) = 2 =>
            LET B == calls[a][1].resp.body
                body == calls[a][2].body
            IN  /\ \A k \in {"dashboard", "document", "workbookModel"} :
                    /\ Prop(body, k) = Prop(B, k)
                    /\ k \in DOMAIN body.f <=> k \in DOMAIN B.f
                /\ Prop(body, "baseModelId") = JStr(att[a].tgt)

C10_Witness ==
    \E a, b \in Attempts :
        /\ Len(calls[a]) = 2 /\ calls[a][1].resp.body = Bundle1
        /\ att[a].tgt = ValidModelId
        /\ Len(calls[b]) = 2 /\ calls[b][1].resp.body = Bundle2
        /\ att[b].tgt = "not-a-uuid"

====
